---------------------------- MODULE Spec2Model ----------------------------
(***************************************************************************)
(* Joe Learn backend (server.js): an Express router over two Firestore     *)
(* collections ("videos", "assessments") and the Cloudinary SDK.           *)
(*                                                                         *)
(* Every handler is an async function.  A handler runs without             *)
(* interruption up to its next `await`; there the call it issued is in     *)
(* flight, and other requests run.  One step of the model is either the    *)
(* start of a handler (up to its first await, or its response when it      *)
(* awaits nothing) or the completion of the call a handler is waiting      *)
(* for, together with the handler's code up to its next await or its       *)
(* response.  A call to Firestore or Cloudinary either takes effect or     *)
(* throws without effect; a throw reaches the handler's catch, next(error) *)
(* and the global error handler, which answers 500.                        *)
(***************************************************************************)
EXTENDS Integers, Sequences, FiniteSets, TLC

(***************************************************************************)
(* Bounds of the model.                                                    *)
(***************************************************************************)
\* Requests handled at the same time.
MaxReqs == 2
\* Requests started in one behaviour.
MaxOps == 3
\* Path ids a client addresses: 1..MaxId (ids the store has assigned, and
\* ids it has not).
MaxId == 1

Reqs == 1..MaxReqs
Ids == 1..MaxId

(***************************************************************************)
(* JavaScript values of a JSON body: undefined (an absent key), null,      *)
(* strings and numbers, all of one shape so that any two compare.          *)
(***************************************************************************)
Undefined == [t |-> "undefined", s |-> "", n |-> 0]
Null == [t |-> "null", s |-> "", n |-> 0]
Str(s) == [t |-> "string", s |-> s, n |-> 0]
Num(n) == [t |-> "number", s |-> "", n |-> n]

\* !v of JavaScript: undefined, null, "" and 0 are falsy.
Falsy(v) ==
    \/ v.t \in {"undefined", "null"}
    \/ v.t = "string" /\ v.s = ""
    \/ v.t = "number" /\ v.n = 0

\* { ...a, ...b }: the keys of both, b's value where both have the key.
Spread(a, b) == b @@ a

(***************************************************************************)
(* Request bodies the clients send.                                        *)
(***************************************************************************)
\* The bodies that differ in one field from a body with every required
\* field.
OneFieldChanged(body, values) ==
    {[body EXCEPT ![f] = v] : f \in DOMAIN body, v \in values}

VideoBody ==
    [title |-> Str("t1"), teacherName |-> Str("Ms. Lee"), subject |-> Str("math"),
     url |-> Str("https://cdn/v.mp4"), public_id |-> Str("p1"), duration |-> Num(0)]

VideoBodies ==
    OneFieldChanged(VideoBody, {Undefined})
        \cup {VideoBody, [VideoBody EXCEPT !.title = Str("")]}

AssessmentBody ==
    [title |-> Str("t1"), teacherName |-> Str("Ms. Lee"),
     url |-> Str("https://cdn/q1.pdf"), public_id |-> Str("p1")]

AssessmentBodies ==
    OneFieldChanged(AssessmentBody, {Undefined})
        \cup {AssessmentBody, [AssessmentBody EXCEPT !.title = Str("")],
              [AssessmentBody EXCEPT !.public_id = Str("p2")]}

PutBodies == [title : {Undefined, Str(""), Str("t2")}]

\* Bodies of POST /generate-signature: a folder, with or without a
\* timestamp of the client's own.
SignatureBodies ==
    LET folders == {[folder |-> Str(f)] :
                        f \in {"joe-learn-videos", "joe-learn-assessments"}}
    IN  folders \cup {Spread(b, [timestamp |-> Num(n)]) :
                        b \in folders, n \in {1, 2, 3}}

\* (new Date()).getTime() of the requests to /generate-signature.
NowMs == {499, 1499, 1500, 2500, 3500}

\* FieldValue.serverTimestamp(): a sentinel the store replaces on commit.
ServerTimestamp == Str("FieldValue.serverTimestamp")

\* cloudinary.config()
CloudinaryConfig ==
    [cloud_name |-> "dszqqhrjv", api_key |-> "593179499237439",
     api_secret |-> "api_secret"]

(***************************************************************************)
(* The metadata store (Firestore), one collection as a function from the   *)
(* ids of its documents to their data.                                     *)
(***************************************************************************)
\* collection.add(data): a new document under a fresh id, the
\* serverTimestamp sentinel replaced by the commit time.
AddDoc(coll, id, data, now) ==
    [i \in DOMAIN coll \cup {id} |->
        IF i = id THEN [data EXCEPT !.createdAt = now] ELSE coll[i]]

\* A slip: set(..., {merge: true}) in place of update(), which creates the
\* document when it does not exist.
UpdateDocUpsert(coll, id, field, value) ==
    IF id \in DOMAIN coll
    THEN [ok |-> TRUE, coll |-> [coll EXCEPT ![id][field] = value]]
    ELSE [ok |-> TRUE,
          coll |-> [i \in DOMAIN coll \cup {id} |->
                      IF i = id THEN [f \in {field} |-> value] ELSE coll[i]]]

\* docRef.update({field: value}): fails when the document does not exist.
UpdateDoc(coll, id, field, value) ==
    IF id \in DOMAIN coll
    THEN [ok |-> TRUE, coll |-> [coll EXCEPT ![id][field] = value]]
    ELSE [ok |-> FALSE, coll |-> coll]

\* docRef.update({field: FieldValue.increment(1)}): an atomic add in the
\* store; fails when the document does not exist.
IncrementDoc(coll, id, field) ==
    IF id \in DOMAIN coll
    THEN [ok |-> TRUE, coll |-> [coll EXCEPT ![id][field] = @ + 1]]
    ELSE [ok |-> FALSE, coll |-> coll]

\* A slip: the delete call left out.
DeleteDocKeeps(coll, id) == coll

\* docRef.delete(): removes the document (a delete of an absent document
\* succeeds and changes nothing).
DeleteDoc(coll, id) == [i \in DOMAIN coll \ {id} |-> coll[i]]

\* A slip: no check of doc.exists.
DocExistsAlways(coll, id) == TRUE

\* docRef.get(): doc.exists
DocExists(coll, id) == id \in DOMAIN coll

\* A slip: orderBy('createdAt') without 'desc'.
BeforeAscending(coll, i, j) ==
    \/ coll[i].createdAt < coll[j].createdAt
    \/ coll[i].createdAt = coll[j].createdAt /\ i <= j

\* orderBy('createdAt', 'desc'): i comes no later than j.  Equal times are
\* ordered by document id, in the direction of the query.
Before(coll, i, j) ==
    \/ coll[i].createdAt > coll[j].createdAt
    \/ coll[i].createdAt = coll[j].createdAt /\ i >= j

RECURSIVE OrderByCreatedAtDesc(_, _)
OrderByCreatedAtDesc(coll, S) ==
    IF S = {} THEN <<>>
    ELSE LET i == CHOOSE x \in S : \A y \in S : Before(coll, x, y)
         IN  <<i>> \o OrderByCreatedAtDesc(coll, S \ {i})

\* snapshot.docs.map(doc => ({ id: doc.id, ...doc.data() }))
ListDocs(coll) ==
    LET order == OrderByCreatedAtDesc(coll, DOMAIN coll)
    IN  [k \in 1..Len(order) |-> Spread([id |-> order[k]], coll[order[k]])]

(***************************************************************************)
(* State.                                                                  *)
(***************************************************************************)
VARIABLES
    videos,        \* the "videos" collection
    assessments,   \* the "assessments" collection
    clock,         \* the store's commit time
    reqs,          \* the requests being handled, by slot
    ops,           \* requests started so far
    createdV,      \* history: each video as committed by add()
    createdA,      \* history: each assessment as committed by add()
    viewsOk,       \* history: per video, POST .../view answered 200
    deletedOk,     \* history: assessment ids whose DELETE was answered 200
    destroyLog,    \* history: the calls of cloudinary.uploader.destroy
    destroyed,     \* public_ids whose stored object a destroy call removed
    removedLog     \* history: the calls of assessmentRef.delete()

vars == <<videos, assessments, clock, reqs, ops, createdV, createdA, viewsOk,
          deletedOk, destroyLog, destroyed, removedLog>>

NoBody == <<>>

\* A slot with no request in it.
Idle ==
    [kind |-> "idle", pc |-> "idle", id |-> 0, doc |-> NoBody,
     pid |-> Undefined, destroy |-> "none", destroys |-> 0, deletes |-> 0,
     error |-> "", status |-> 0, out |-> NoBody]

Init ==
    /\ videos = <<>>
    /\ assessments = <<>>
    /\ clock = 1
    /\ reqs = [q \in Reqs |-> Idle]
    /\ ops = 0
    /\ createdV = <<>>
    /\ createdA = <<>>
    /\ viewsOk = [i \in Ids |-> 0]
    /\ deletedOk = {}
    /\ destroyLog = <<>>
    /\ destroyed = {}
    /\ removedLog = {}

store == <<videos, assessments, clock, createdV, createdA>>
history == <<viewsOk, deletedOk, destroyLog, destroyed, removedLog>>

\* An incoming request takes the first slot whose request, if it had one,
\* has been answered.
Free(q) ==
    /\ ops < MaxOps
    /\ reqs[q].pc \in {"idle", "done"}
    /\ \A p \in Reqs : p < q => reqs[p].pc \notin {"idle", "done"}

\* The handler of a request of this kind, waiting for the call `pc`.
Awaiting(kind, pc, id, doc) ==
    [Idle EXCEPT !.kind = kind, !.pc = pc, !.id = id, !.doc = doc]

\* res.status(status).json(out)
Responded(r, status, out) ==
    [r EXCEPT !.pc = "done", !.status = status, !.out = out]

\* catch (error) { console.error(..., error); next(error) }, then the
\* global error handler.
ErrorHandler(r, error) ==
    Responded([r EXCEPT !.error = error], 500,
        [message |-> "An internal server error occurred. Please check the server logs for details."])

\* What a call throws: the service cannot be reached or refuses, the
\* document to update does not exist, a property of undefined is read.
Unavailable == "UNAVAILABLE"
NotFound == "NOT_FOUND"
TypeError == "TypeError"

\* The handler of slot q runs from its start to r.
Begin(q, r) ==
    /\ Free(q)
    /\ reqs' = [reqs EXCEPT ![q] = r]
    /\ ops' = ops + 1

\* The handler of slot q, waiting for the call `pc` of a request of this
\* kind, runs on to r.
Waiting(q, kind, pc) == reqs[q].kind = kind /\ reqs[q].pc = pc

Resume(q, r) == reqs' = [reqs EXCEPT ![q] = r] /\ ops' = ops

(***************************************************************************)
(* GET /api/                                                               *)
(***************************************************************************)
Health(q) ==
    /\ Begin(q, Responded(Awaiting("health", "done", 0, NoBody), 200,
                          [message |-> "Joe Learn API is running!"]))
    /\ UNCHANGED <<store, history>>

(***************************************************************************)
(* POST /api/generate-signature                                            *)
(***************************************************************************)
\* Math.round(ms / 1000)
RoundSeconds(ms) == (ms + 500) \div 1000

\* The parameters handed to the signing primitive.
ParamsToSign(timestamp, body) == Spread([timestamp |-> Num(timestamp)], body)

\* cloudinary.utils.api_sign_request: a digest of the parameters and the
\* secret, which differs when either differs.
ApiSignRequest(params, secret) == [digest_of |-> params, with |-> secret]

GenerateSignature(q) ==
    \E ms \in NowMs, body \in SignatureBodies, thrown \in BOOLEAN :
        LET timestamp == RoundSeconds(ms)
            params_to_sign == ParamsToSign(timestamp, body)
            r == Awaiting("generate-signature", "done", 0, params_to_sign)
        IN  /\ Begin(q, IF thrown
                        THEN Responded([r EXCEPT !.error = TypeError], 500,
                                 [message |-> "Could not generate upload signature."])
                        ELSE Responded(r, 200,
                                 [signature |-> ApiSignRequest(params_to_sign,
                                                    CloudinaryConfig.api_secret),
                                  timestamp |-> Num(timestamp),
                                  api_key |-> CloudinaryConfig.api_key,
                                  cloud_name |-> CloudinaryConfig.cloud_name]))
            /\ UNCHANGED <<store, history>>

(***************************************************************************)
(* GET /api/videos                                                         *)
(***************************************************************************)
GetVideos(q) ==
    /\ Begin(q, Awaiting("videos", "query", 0, NoBody))
    /\ UNCHANGED <<store, history>>

GetVideosQuery(q) ==
    /\ Waiting(q, "videos", "query")
    /\ \E up \in BOOLEAN :
        Resume(q, IF up THEN Responded(reqs[q], 200, ListDocs(videos))
                        ELSE ErrorHandler(reqs[q], Unavailable))
    /\ UNCHANGED <<store, history>>

(***************************************************************************)
(* POST /api/upload-video                                                  *)
(***************************************************************************)
\* A slip: `!duration` forgotten in the check.
VideoMissingNoDuration(body) ==
    \/ Falsy(body.title) \/ Falsy(body.teacherName) \/ Falsy(body.subject)
    \/ Falsy(body.url) \/ Falsy(body.public_id)

\* The required-field check of the handler.
VideoMissing(body) ==
    \/ Falsy(body.title) \/ Falsy(body.teacherName) \/ Falsy(body.subject)
    \/ Falsy(body.url) \/ Falsy(body.public_id)
    \/ body.duration = Undefined

NewVideoData(body) ==
    [title |-> body.title, subject |-> body.subject,
     teacher |-> body.teacherName, url |-> body.url,
     public_id |-> body.public_id, duration |-> body.duration,
     views |-> 0, completions |-> 0, createdAt |-> ServerTimestamp]

\* The id the store gives the next document of a collection whose
\* documents so far are `created`: one no document has had.
NewId(created) == Cardinality(DOMAIN created) + 1

\* new Date() of the server when the store committed at `now`: the two
\* clocks are not the same clock.
WallClock(now) == now + 1

\* new Date().toISOString() at a wall-clock time
ISOString(time) == [iso |-> time]

UploadVideo(q) ==
    \E body \in VideoBodies :
        /\ Begin(q, IF VideoMissing(body)
                    THEN Responded(Awaiting("upload-video", "done", 0, body),
                             400, [message |-> "Missing required video data."])
                    ELSE Awaiting("upload-video", "add", 0, NewVideoData(body)))
        /\ UNCHANGED <<store, history>>

UploadVideoAdd(q) ==
    /\ Waiting(q, "upload-video", "add")
    /\ \/ \E now \in {clock, clock + 1} :
            LET id == NewId(createdV)
                newVideoData == reqs[q].doc
            IN  /\ videos' = AddDoc(videos, id, newVideoData, now)
                /\ createdV' = AddDoc(createdV, id, newVideoData, now)
                /\ clock' = now
                /\ Resume(q, Responded([reqs[q] EXCEPT !.id = id], 201,
                        Spread(Spread([id |-> id], newVideoData),
                               [createdAt |-> ISOString(WallClock(now))])))
       \/ /\ Resume(q, ErrorHandler(reqs[q], Unavailable))
          /\ UNCHANGED <<videos, createdV, clock>>
    /\ UNCHANGED <<assessments, createdA, history>>

(***************************************************************************)
(* POST /api/videos/:id/view and POST /api/videos/:id/complete             *)
(***************************************************************************)
\* A slip: the view handler copied without renaming the counter.
CompleteFieldSlip == "views"

\* The counter each endpoint increments.
ViewField == "views"
CompleteField == "completions"

View(q) ==
    \E id \in Ids :
        /\ Begin(q, Awaiting("view", "update", id, NoBody))
        /\ UNCHANGED <<store, history>>

ViewUpdate(q) ==
    /\ Waiting(q, "view", "update")
    /\ LET id == reqs[q].id
           res == IncrementDoc(videos, id, ViewField)
       IN  \/ /\ res.ok
              /\ videos' = res.coll
              /\ viewsOk' = [viewsOk EXCEPT ![id] = @ + 1]
              /\ Resume(q, Responded(reqs[q], 200,
                               [message |-> "View count updated successfully."]))
           \/ /\ Resume(q, ErrorHandler(reqs[q],
                               IF res.ok THEN Unavailable ELSE NotFound))
              /\ UNCHANGED <<videos, viewsOk>>
    /\ UNCHANGED <<assessments, clock, createdV, createdA, deletedOk,
                   destroyLog, destroyed, removedLog>>

Complete(q) ==
    \E id \in Ids :
        /\ Begin(q, Awaiting("complete", "update", id, NoBody))
        /\ UNCHANGED <<store, history>>

CompleteUpdate(q) ==
    /\ Waiting(q, "complete", "update")
    /\ LET res == IncrementDoc(videos, reqs[q].id, CompleteField)
       IN  \/ /\ res.ok
              /\ videos' = res.coll
              /\ Resume(q, Responded(reqs[q], 200,
                               [message |-> "Completion count updated successfully."]))
           \/ /\ Resume(q, ErrorHandler(reqs[q],
                               IF res.ok THEN Unavailable ELSE NotFound))
              /\ UNCHANGED videos
    /\ UNCHANGED <<assessments, clock, createdV, createdA, history>>

(***************************************************************************)
(* GET /api/assessments                                                    *)
(***************************************************************************)
GetAssessments(q) ==
    /\ Begin(q, Awaiting("assessments", "query", 0, NoBody))
    /\ UNCHANGED <<store, history>>

GetAssessmentsQuery(q) ==
    /\ Waiting(q, "assessments", "query")
    /\ \E up \in BOOLEAN :
        Resume(q, IF up THEN Responded(reqs[q], 200, ListDocs(assessments))
                        ELSE ErrorHandler(reqs[q], Unavailable))
    /\ UNCHANGED <<store, history>>

(***************************************************************************)
(* POST /api/upload-assessment                                             *)
(***************************************************************************)
AssessmentMissing(body) ==
    \/ Falsy(body.title) \/ Falsy(body.teacherName)
    \/ Falsy(body.url) \/ Falsy(body.public_id)

NewAssessmentData(body) ==
    [title |-> body.title, teacher |-> body.teacherName, url |-> body.url,
     public_id |-> body.public_id, createdAt |-> ServerTimestamp]

UploadAssessment(q) ==
    \E body \in AssessmentBodies :
        /\ Begin(q, IF AssessmentMissing(body)
                    THEN Responded(Awaiting("upload-assessment", "done", 0, body),
                             400, [message |-> "Missing required assessment data."])
                    ELSE Awaiting("upload-assessment", "add", 0,
                                  NewAssessmentData(body)))
        /\ UNCHANGED <<store, history>>

UploadAssessmentAdd(q) ==
    /\ Waiting(q, "upload-assessment", "add")
    /\ \/ \E now \in {clock, clock + 1} :
            LET id == NewId(createdA)
                newAssessmentData == reqs[q].doc
            IN  /\ assessments' = AddDoc(assessments, id, newAssessmentData, now)
                /\ createdA' = AddDoc(createdA, id, newAssessmentData, now)
                /\ clock' = now
                /\ Resume(q, Responded([reqs[q] EXCEPT !.id = id], 201,
                        Spread(Spread([id |-> id], newAssessmentData),
                               [createdAt |-> ISOString(WallClock(now))])))
       \/ /\ Resume(q, ErrorHandler(reqs[q], Unavailable))
          /\ UNCHANGED <<assessments, createdA, clock>>
    /\ UNCHANGED <<videos, createdV, history>>

(***************************************************************************)
(* PUT /api/assessments/:id                                                *)
(***************************************************************************)
\* A slip: the update writes another field.
PutFieldSlip == "teacher"

\* The field the update writes.
PutField == "title"

PutAssessment(q) ==
    \E id \in Ids, body \in PutBodies :
        /\ Begin(q, IF Falsy(body.title)
                    THEN Responded(Awaiting("put", "done", id, body),
                             400, [message |-> "New title is required."])
                    ELSE Awaiting("put", "update", id, [title |-> body.title]))
        /\ UNCHANGED <<store, history>>

PutAssessmentUpdate(q) ==
    /\ Waiting(q, "put", "update")
    /\ LET res == UpdateDoc(assessments, reqs[q].id, PutField, reqs[q].doc.title)
       IN  \/ /\ res.ok
              /\ assessments' = res.coll
              /\ Resume(q, Responded(reqs[q], 200,
                               [message |-> "Assessment updated successfully."]))
           \/ /\ Resume(q, ErrorHandler(reqs[q],
                               IF res.ok THEN Unavailable ELSE NotFound))
              /\ UNCHANGED assessments
    /\ UNCHANGED <<videos, clock, createdV, createdA, history>>

(***************************************************************************)
(* DELETE /api/assessments/:id                                             *)
(***************************************************************************)
DeleteAssessment(q) ==
    \E id \in Ids :
        /\ Begin(q, Awaiting("delete", "get", id, NoBody))
        /\ UNCHANGED <<store, history>>

\* The handler after `await assessmentRef.get()`, up to its next await: the
\* 404, or the destroy call when the record has a public_id, or else the
\* delete call.  (doc.data() of a document that does not exist is
\* undefined, and reading its public_id throws.)
AfterGet(r, coll) ==
    IF ~DocExists(coll, r.id)
    THEN Responded(r, 404, [message |-> "Assessment not found."])
    ELSE IF r.id \notin DOMAIN coll
    THEN ErrorHandler(r, TypeError)
    ELSE LET public_id == coll[r.id].public_id
         IN  IF ~Falsy(public_id)
             THEN [r EXCEPT !.pc = "destroy", !.pid = public_id]
             ELSE [r EXCEPT !.pc = "delete", !.pid = public_id,
                            !.deletes = @ + 1]

DeleteAssessmentGet(q) ==
    /\ Waiting(q, "delete", "get")
    /\ \/ Resume(q, AfterGet(reqs[q], assessments))
       \/ Resume(q, ErrorHandler(reqs[q], Unavailable))
    /\ UNCHANGED <<store, history>>

\* The public_id the handler passes to cloudinary.uploader.destroy.
DestroyArgument(r) == r.pid

\* A slip: a failed destroy is swallowed and the record deleted anyway.
AfterDestroySwallows(r, returned) ==
    [r EXCEPT !.pc = "delete", !.destroy = IF returned THEN "ok" ELSE "failed",
              !.deletes = @ + 1]

\* The handler after `await cloudinary.uploader.destroy(...)`: the delete
\* call when destroy returned, the catch when it threw.
AfterDestroy(r, returned) ==
    IF returned
    THEN [r EXCEPT !.pc = "delete", !.destroy = "ok", !.deletes = @ + 1]
    ELSE ErrorHandler([r EXCEPT !.destroy = "failed"], Unavailable)

\* await cloudinary.uploader.destroy(public_id, { resource_type: 'raw' })
DeleteAssessmentDestroy(q) ==
    /\ Waiting(q, "delete", "destroy")
    /\ LET r == [reqs[q] EXCEPT !.destroys = @ + 1]
           call == [id |-> r.id, public_id |-> DestroyArgument(r)]
       IN  /\ destroyLog' = Append(destroyLog, call)
           /\ \/ /\ destroyed' = destroyed \cup {call.public_id}
                 /\ Resume(q, AfterDestroy(r, TRUE))
              \/ /\ Resume(q, AfterDestroy(r, FALSE))
                 /\ UNCHANGED destroyed
    /\ UNCHANGED <<store, viewsOk, deletedOk, removedLog>>

\* await assessmentRef.delete(), then the 200.
DeleteAssessmentDelete(q) ==
    /\ Waiting(q, "delete", "delete")
    /\ LET r == reqs[q]
       IN  \/ /\ assessments' = DeleteDoc(assessments, r.id)
              /\ removedLog' = removedLog \cup {[id |-> r.id, destroy |-> r.destroy]}
              /\ deletedOk' = deletedOk \cup {r.id}
              /\ Resume(q, Responded(r, 200,
                               [message |-> "Assessment deleted successfully."]))
           \/ /\ Resume(q, ErrorHandler(r, Unavailable))
              /\ UNCHANGED <<assessments, removedLog, deletedOk>>
    /\ UNCHANGED <<videos, clock, createdV, createdA, viewsOk, destroyLog, destroyed>>

(***************************************************************************)
(* The two collections share no document and no handler touches both, and  *)
(* the handlers share no state in the process: the endpoints of each       *)
(* collection, and the ones that touch no collection, are specified        *)
(* apart.                                                                  *)
(***************************************************************************)
NextVideos ==
    \E q \in Reqs :
        \/ GetVideos(q) \/ GetVideosQuery(q)
        \/ UploadVideo(q) \/ UploadVideoAdd(q)
        \/ View(q) \/ ViewUpdate(q)
        \/ Complete(q) \/ CompleteUpdate(q)

NextAssessments ==
    \E q \in Reqs :
        \/ GetAssessments(q) \/ GetAssessmentsQuery(q)
        \/ UploadAssessment(q) \/ UploadAssessmentAdd(q)
        \/ PutAssessment(q) \/ PutAssessmentUpdate(q)
        \/ DeleteAssessment(q) \/ DeleteAssessmentGet(q)
        \/ DeleteAssessmentDestroy(q) \/ DeleteAssessmentDelete(q)

NextStateless ==
    \E q \in Reqs : Health(q) \/ GenerateSignature(q)

Next == NextVideos \/ NextAssessments \/ NextStateless

Spec == Init /\ [][Next]_vars
SpecVideos == Init /\ [][NextVideos]_vars
SpecAssessments == Init /\ [][NextAssessments]_vars
SpecCollections == Init /\ [][NextVideos \/ NextAssessments]_vars
SpecStateless == Init /\ [][NextStateless]_vars


(***************************************************************************)
(* The steps of a request, as the properties below name them.              *)
(***************************************************************************)
\* This step starts a request of this kind in slot q.
Begins(q, kind) == Free(q) /\ ops' = ops + 1 /\ reqs'[q].kind = kind

\* This step completes the call `pc` that the handler of slot q awaits.
Resumes(q, kind, pc) ==
    Waiting(q, kind, pc) /\ ops' = ops /\ reqs'[q] # reqs[q]

\* The ids a list result holds.
ListedIds(L) == {L[k].id : k \in DOMAIN L}

\* The destroy calls made by the DELETE requests on assessment id.
DestroyCallsFor(id) == SelectSeq(destroyLog, LAMBDA c : c.id = id)

(***************************************************************************)
(* C1.  The stored `views` of a video is its value at creation plus the    *)
(* number of POST /videos/:id/view requests on it answered 200, whatever   *)
(* the interleaving with other view and complete requests: no increment    *)
(* is lost, none is applied twice, and complete requests add nothing.      *)
(***************************************************************************)
C1_ViewsCountAnswered ==
    \A id \in Ids \cap DOMAIN videos :
        videos[id].views = createdV[id].views + viewsOk[id]

\* A view and a complete request on one video, in flight together, both
\* answered 200.
C1_Witness ==
    /\ reqs[1].kind = "view" /\ reqs[1].status = 200
    /\ reqs[2].kind = "complete" /\ reqs[2].status = 200
    /\ reqs[1].id = reqs[2].id
    /\ videos[reqs[1].id].views = 1

(***************************************************************************)
(* C2, as claimed.  Once a DELETE of an assessment is answered 200, the    *)
(* record is in no list result and exactly one destroy call has been made  *)
(* for the record, with its public_id.                                     *)
(***************************************************************************)
C2_OneDestroyPerRecord ==
    \A id \in deletedOk :
        /\ id \notin ListedIds(ListDocs(assessments))
        /\ Len(DestroyCallsFor(id)) = 1
        /\ DestroyCallsFor(id)[1].public_id = createdA[id].public_id

(***************************************************************************)
(* C2, amended.  Once a DELETE of an assessment is answered 200, the       *)
(* record is in no list result, and the request answered 200 has itself    *)
(* made exactly one destroy call, with the record's public_id.  (Each      *)
(* DELETE request that finds the record makes a destroy call of its own.)  *)
(***************************************************************************)
C2_OneDestroyPerRequest ==
    /\ \A id \in deletedOk : id \notin ListedIds(ListDocs(assessments))
    /\ \A q \in Reqs :
        LET r == reqs[q]
        IN  r.kind = "delete" /\ r.status = 200 =>
                /\ r.id \in deletedOk
                /\ r.destroys = 1
                /\ \E k \in DOMAIN destroyLog :
                        destroyLog[k] = [id |-> r.id,
                                         public_id |-> createdA[r.id].public_id]

\* Two DELETE requests on one assessment, in flight together, both
\* answered 200.
C2_Witness ==
    /\ reqs[1].kind = "delete" /\ reqs[1].status = 200
    /\ reqs[2].kind = "delete" /\ reqs[2].status = 200
    /\ reqs[1].id = reqs[2].id

(***************************************************************************)
(* C3, as claimed.  No assessment record names, by its public_id, a        *)
(* stored object that a destroy call of this system has removed.           *)
(***************************************************************************)
C3_NoRecordOfDestroyedObject ==
    \A id \in DOMAIN assessments : assessments[id].public_id \notin destroyed

(***************************************************************************)
(* C4.  When the lookup of a DELETE returns and the id has no record, the  *)
(* answer is 404, the collection is unchanged and no destroy and no        *)
(* delete call is made.  (A lookup that throws is answered 500, with the   *)
(* same frame.)                                                            *)
(***************************************************************************)
C4_DeleteOfMissingIs404 ==
    [][\A q \in Reqs :
        Resumes(q, "delete", "get") /\ reqs[q].id \notin DOMAIN assessments =>
            /\ reqs'[q].pc = "done"
            /\ \/ reqs'[q].status = 404
               \/ reqs'[q].status = 500 /\ reqs'[q].error = Unavailable
            /\ reqs'[q].destroys = 0 /\ reqs'[q].deletes = 0
            /\ assessments' = assessments
            /\ destroyLog' = destroyLog /\ destroyed' = destroyed
            /\ removedLog' = removedLog]_vars

\* A DELETE of an id whose record an earlier DELETE removed, answered 404.
C4_Witness ==
    \E q \in Reqs :
        /\ reqs[q].kind = "delete" /\ reqs[q].status = 404
        /\ reqs[q].id \in deletedOk

(***************************************************************************)
(* C5.  An upload request whose body lacks a required field (for a video   *)
(* also: whose duration is undefined) is answered 400 at once and writes   *)
(* nothing; a request goes on to the store only with every field set.  A   *)
(* video body with every field and duration 0 is not answered 400: its     *)
(* add() persists exactly one record, with views = 0 and completions = 0,  *)
(* and is answered 201 (or add() throws, nothing is persisted and the      *)
(* answer is 500).                                                         *)
(***************************************************************************)
C5_Persisted(q, coll, collAfter) ==
    LET r == reqs'[q]
    IN  \/ /\ r.status = 201
           /\ r.id \notin DOMAIN coll
           /\ DOMAIN collAfter = DOMAIN coll \cup {r.id}
           /\ \A i \in DOMAIN coll : collAfter[i] = coll[i]
        \/ /\ r.status = 500
           /\ collAfter = coll

C5_RequiredFieldsChecked ==
    [][\A q \in Reqs :
        /\ Begins(q, "upload-video") =>
            LET r == reqs'[q]
            IN  /\ store' = store
                /\ r.pc \in {"done", "add"}
                /\ r.pc = "done" => r.status = 400 /\ r.doc # VideoBody
                /\ r.pc = "add" =>
                    /\ \A f \in {"title", "teacher", "subject", "url", "public_id"} :
                            r.doc[f] # Undefined /\ ~Falsy(r.doc[f])
                    /\ r.doc.duration # Undefined
        /\ Resumes(q, "upload-video", "add") =>
            /\ C5_Persisted(q, videos, videos')
            /\ reqs'[q].status = 201 =>
                    /\ videos'[reqs'[q].id].views = 0
                    /\ videos'[reqs'[q].id].completions = 0
                    /\ videos'[reqs'[q].id].duration = reqs[q].doc.duration
        /\ Begins(q, "upload-assessment") =>
            LET r == reqs'[q]
            IN  /\ store' = store
                /\ r.pc \in {"done", "add"}
                /\ r.pc = "done" => r.status = 400 /\ r.doc # AssessmentBody
                /\ r.pc = "add" =>
                    \A f \in {"title", "teacher", "url", "public_id"} :
                        r.doc[f] # Undefined /\ ~Falsy(r.doc[f])
        /\ Resumes(q, "upload-assessment", "add") =>
            C5_Persisted(q, assessments, assessments')]_vars

\* A video with duration 0 persisted and answered 201, and an upload
\* without duration answered 400.
C5_Witness ==
    /\ reqs[1].kind = "upload-video" /\ reqs[1].status = 201
    /\ createdV[reqs[1].id].duration = Num(0)
    /\ createdV[reqs[1].id].views = 0
    /\ reqs[2].kind = "upload-video" /\ reqs[2].status = 400
    /\ reqs[2].doc.duration = Undefined

(***************************************************************************)
(* C6, as claimed.  The timestamp of a 200 response of                     *)
(* /generate-signature is the timestamp among the parameters that were     *)
(* signed.                                                                 *)
(***************************************************************************)
C6_ReturnedTimestampIsSigned ==
    \A q \in Reqs :
        LET r == reqs[q]
        IN  r.kind = "generate-signature" /\ r.status = 200 =>
                /\ r.doc.timestamp = r.out.timestamp
                /\ r.out.signature.digest_of.timestamp = r.out.timestamp

(***************************************************************************)
(* C7.  The update of a view, complete or PUT request whose id has no      *)
(* record (never created, or deleted, also while the request was in        *)
(* flight) is answered 500 and leaves the collection unchanged; a record   *)
(* only ever appears under an id no record has had, so a deleted id does   *)
(* not come back.                                                          *)
(***************************************************************************)
C7_UpdateOfMissingIs500 ==
    [][/\ \A q \in Reqs :
            /\ (Resumes(q, "view", "update") \/ Resumes(q, "complete", "update"))
                    /\ reqs[q].id \notin DOMAIN videos =>
                /\ reqs'[q].pc = "done" /\ reqs'[q].status = 500
                /\ videos' = videos
            /\ Resumes(q, "put", "update")
                    /\ reqs[q].id \notin DOMAIN assessments =>
                /\ reqs'[q].pc = "done" /\ reqs'[q].status = 500
                /\ assessments' = assessments
       /\ \A id \in DOMAIN assessments' \ DOMAIN assessments :
            id \notin DOMAIN createdA
       /\ \A id \in DOMAIN videos' \ DOMAIN videos :
            id \notin DOMAIN createdV]_vars

\* A PUT in flight while a DELETE removed its record, answered 500.
C7_Witness ==
    /\ reqs[1].kind = "delete" /\ reqs[1].status = 200
    /\ reqs[2].kind = "put" /\ reqs[2].status = 500
    /\ reqs[2].error = NotFound
    /\ reqs[2].id = reqs[1].id
    /\ reqs[2].id \in DOMAIN createdA \ DOMAIN assessments

(***************************************************************************)
(* C8.  A list answered 200 holds every record of its collection exactly   *)
(* once, as stored, newest creation time first; while nothing has been     *)
(* deleted these are all the records ever created.                         *)
(***************************************************************************)
C8_Lists(L, coll) ==
    /\ Len(L) = Cardinality(DOMAIN coll)
    /\ ListedIds(L) = DOMAIN coll
    /\ \A k \in DOMAIN L : \A f \in DOMAIN coll[L[k].id] :
            L[k][f] = coll[L[k].id][f]
    /\ \A k \in DOMAIN L : \A j \in DOMAIN L :
            k < j => L[k].createdAt >= L[j].createdAt

C8_ListIsCompleteAndOrdered ==
    [][\A q \in Reqs :
        /\ Resumes(q, "videos", "query") /\ reqs'[q].status = 200 =>
            /\ C8_Lists(reqs'[q].out, videos)
            /\ Len(reqs'[q].out) = Cardinality(DOMAIN createdV)
        /\ Resumes(q, "assessments", "query") /\ reqs'[q].status = 200 =>
            /\ C8_Lists(reqs'[q].out, assessments)
            /\ removedLog = {} =>
                    Len(reqs'[q].out) = Cardinality(DOMAIN createdA)]_vars

\* A list of two records created at different times.
C8_Witness ==
    \E q \in Reqs :
        /\ reqs[q].kind \in {"videos", "assessments"} /\ reqs[q].status = 200
        /\ Len(reqs[q].out) = 2
        /\ reqs[q].out[1].createdAt > reqs[q].out[2].createdAt

(***************************************************************************)
(* C9.  No step changes teacher, url, public_id or createdAt of an         *)
(* assessment, or title, teacher, subject, url, public_id, duration or     *)
(* createdAt of a video, and no video is ever removed.  A record changes   *)
(* only by the update of a PUT (its title, to the title sent), of a view   *)
(* (views, by one) or of a complete request (completions, by one)          *)
(* addressed to it, and that step changes no other record.                 *)
(***************************************************************************)
C9_OthersUnchanged(id) ==
    /\ \A j \in DOMAIN assessments \ {id} :
            j \in DOMAIN assessments' /\ assessments'[j] = assessments[j]
    /\ \A j \in DOMAIN videos \ {id} :
            j \in DOMAIN videos' /\ videos'[j] = videos[j]

C9_OnlyMutableFieldsChange ==
    [][/\ \A id \in DOMAIN assessments \cap DOMAIN assessments' :
            /\ \A f \in {"teacher", "url", "public_id", "createdAt"} :
                    assessments'[id][f] = assessments[id][f]
            /\ assessments'[id] # assessments[id] =>
                    /\ \E q \in Reqs :
                            /\ Resumes(q, "put", "update")
                            /\ reqs[q].id = id
                            /\ assessments'[id].title = reqs[q].doc.title
                    /\ C9_OthersUnchanged(id)
                    /\ videos' = videos
       /\ \A id \in DOMAIN videos :
            /\ id \in DOMAIN videos'
            /\ \A f \in {"title", "teacher", "subject", "url", "public_id",
                         "duration", "createdAt"} :
                    videos'[id][f] = videos[id][f]
            /\ videos'[id] # videos[id] =>
                    /\ \E q \in Reqs :
                            /\ reqs[q].id = id
                            /\ \/ /\ Resumes(q, "view", "update")
                                  /\ videos'[id].views = videos[id].views + 1
                                  /\ videos'[id].completions = videos[id].completions
                               \/ /\ Resumes(q, "complete", "update")
                                  /\ videos'[id].completions =
                                        videos[id].completions + 1
                                  /\ videos'[id].views = videos[id].views
                    /\ C9_OthersUnchanged(id)
                    /\ assessments' = assessments]_vars

\* An assessment whose title a PUT has changed, next to one it has not.
C9_Witness ==
    \E id \in DOMAIN assessments :
        /\ assessments[id].title # createdA[id].title
        /\ \E j \in DOMAIN assessments : j # id

(***************************************************************************)
(* C10.  A DELETE issues the delete of the record only after its destroy   *)
(* call has returned: a request whose destroy call threw is answered 500   *)
(* and has issued no delete; every delete of a record that took effect     *)
(* came after a destroy that returned; and a record that no such delete    *)
(* removed is still in the list.                                           *)
(***************************************************************************)
C10_DeleteOnlyAfterDestroy ==
    /\ \A q \in Reqs :
        LET r == reqs[q]
        IN  r.kind = "delete" =>
                /\ r.deletes > 0 => r.destroy = "ok"
                /\ r.destroy = "failed" =>
                        r.pc = "done" /\ r.status = 500 /\ r.deletes = 0
    /\ \A x \in removedLog : x.destroy = "ok"
    /\ \A id \in DOMAIN createdA :
            (\A x \in removedLog : x.id # id) =>
                id \in ListedIds(ListDocs(assessments))

\* A DELETE whose destroy call threw, answered 500, its record still
\* listed.
C10_Witness ==
    \E q \in Reqs :
        /\ reqs[q].kind = "delete" /\ reqs[q].destroy = "failed"
        /\ reqs[q].status = 500
        /\ reqs[q].id \in ListedIds(ListDocs(assessments))

=============================================================================
